---- MODULE Spec2Model ----
\* Window Inspector (externals/python/window_inspector/window_inspector.py).
\* One run of the script: import the window-server capability, take one
\* snapshot, filter / classify / map every record, sort, print one JSON
\* array; any exception prints the array [] instead.
EXTENDS Integers, Sequences, FiniteSets, TLC

\* ---------------------------------------------------------------------
\* Python values.  A value is a record with one field naming its type, so
\* values of different types can be compared (and are never equal).
\* A str is its sequence of code points.  A dict is a function whose
\* DOMAIN is the set of keys that are present.
\* ---------------------------------------------------------------------
IntV(n) == [int |-> n]
StrV(s) == [str |-> s]
BoolV(b) == [bool |-> b]
None == [none |-> TRUE]
\* an object that is neither a number, a string nor a container
\* (no .lower/.strip, not orderable, not JSON serializable)
Obj == [obj |-> TRUE]
EmptyDict == [k \in {} |-> None]

IsInt(v) == DOMAIN v = {"int"}
IsStr(v) == DOMAIN v = {"str"}
IsBool(v) == DOMAIN v = {"bool"}

\* dict.get(key, default)
Get(d, key, default) == IF key \in DOMAIN d THEN d[key] ELSE default

\* truth value of a Python object in a boolean context
Truthy(v) ==
  IF IsInt(v) THEN v.int # 0
  ELSE IF IsStr(v) THEN v.str # <<>>
  ELSE IF IsBool(v) THEN v.bool
  ELSE IF v = None THEN FALSE
  ELSE TRUE

\* str.lower() on one code point (ASCII letters; the other code points
\* used here have no case)
LowerChar(c) == IF c >= 65 /\ c <= 90 THEN c + 32 ELSE c
lower(s) == [k \in 1..Len(s) |-> LowerChar(s[k])]

\* a in b for two str
In(a, b) ==
  \E k \in 0..(Len(b) - Len(a)) : \A j \in 1..Len(a) : b[k + j] = a[j]

\* code points str.strip() removes
IsSpace(c) ==
  \/ c >= 9 /\ c <= 13
  \/ c >= 28 /\ c <= 32
  \/ c \in {133, 160, 5760, 8232, 8233, 8239, 8287, 12288}
  \/ c >= 8192 /\ c <= 8202

RECURSIVE lstrip(_)
lstrip(s) ==
  IF s # <<>> /\ IsSpace(Head(s)) THEN lstrip(Tail(s)) ELSE s

RECURSIVE rstrip(_)
rstrip(s) ==
  IF s # <<>> /\ IsSpace(s[Len(s)]) THEN rstrip(SubSeq(s, 1, Len(s) - 1)) ELSE s

strip(s) == rstrip(lstrip(s))

\* a < b for two str: at the first position where they differ a has the
\* smaller code point, or a ends there and b does not
StrLess(a, b) ==
  \E p \in 0..Len(a) :
    /\ p <= Len(b)
    /\ \A j \in 1..p : a[j] = b[j]
    /\ \/ p = Len(a) /\ p < Len(b)
       \/ p < Len(a) /\ p < Len(b) /\ a[p + 1] < b[p + 1]

\* important_apps (window_inspector.py:30-73): each entry a string, written as its sequence of code points
important_apps ==
  <<
    <<71,105,116,72,117,98,32,68,101,115,107,116,111,112>>,  \* GitHub Desktop
    <<103,105,116,104,117,98>>,  \* github
    <<71,105,116,72,117,98>>,  \* GitHub
    <<71,111,111,103,108,101,32,67,104,114,111,109,101>>,  \* Google Chrome
    <<67,104,114,111,109,101>>,  \* Chrome
    <<99,104,114,111,109,101>>,  \* chrome
    <<86,105,115,117,97,108,32,83,116,117,100,105,111,32,67,111,100,101>>,  \* Visual Studio Code
    <<67,111,100,101>>,  \* Code
    <<86,83,67,111,100,101>>,  \* VSCode
    <<99,111,100,101>>,  \* code
    <<86,105,115,117,97,108,32,83,116,117,100,105,111,32,67,111,100,101,32,45,32,73,110,115,105,100,101,114,115>>,  \* Visual Studio Code - Insiders
    <<83,108,97,99,107>>,  \* Slack
    <<115,108,97,99,107>>,  \* slack
    <<77,105,99,114,111,115,111,102,116,32,84,101,97,109,115>>,  \* Microsoft Teams
    <<84,101,97,109,115>>,  \* Teams
    <<109,115,116,101,97,109,115>>,  \* msteams
    <<70,105,103,109,97>>,  \* Figma
    <<102,105,103,109,97>>,  \* figma
    <<68,105,115,99,111,114,100>>,  \* Discord
    <<100,105,115,99,111,114,100>>,  \* discord
    <<78,111,116,105,111,110>>,  \* Notion
    <<110,111,116,105,111,110>>,  \* notion
    <<83,97,102,97,114,105>>,  \* Safari
    <<115,97,102,97,114,105>>,  \* safari
    <<70,105,114,101,102,111,120>>,  \* Firefox
    <<102,105,114,101,102,111,120>>,  \* firefox
    <<77,111,122,105,108,108,97,32,70,105,114,101,102,111,120>>,  \* Mozilla Firefox
    <<84,101,114,109,105,110,97,108>>,  \* Terminal
    <<116,101,114,109,105,110,97,108>>,  \* terminal
    <<105,84,101,114,109,50>>,  \* iTerm2
    <<105,84,101,114,109>>,  \* iTerm
    <<105,84,101,114,109,32,50>>,  \* iTerm 2
    <<105,116,101,114,109>>,  \* iterm
    <<105,116,101,114,109,50>>,  \* iterm2
    <<70,105,110,100,101,114>>,  \* Finder
    <<102,105,110,100,101,114>>,  \* finder
    <<87,101,67,104,97,116>>,  \* WeChat
    <<119,101,99,104,97,116>>,  \* wechat
    <<24494,20449>>,  \* U+5FAE U+4FE1
    <<90,111,111,109>>,  \* Zoom
    <<122,111,111,109,46,117,115>>,  \* zoom.us
    <<122,111,111,109>>,  \* zoom
    <<83,107,121,112,101>>,  \* Skype
    <<115,107,121,112,101>>,  \* skype
    <<77,105,99,114,111,115,111,102,116,32,80,111,119,101,114,80,111,105,110,116>>,  \* Microsoft PowerPoint
    <<80,111,119,101,114,80,111,105,110,116>>,  \* PowerPoint
    <<112,111,119,101,114,112,111,105,110,116>>,  \* powerpoint
    <<112,112,116>>,  \* ppt
    <<75,101,121,110,111,116,101>>,  \* Keynote
    <<107,101,121,110,111,116,101>>,  \* keynote
    <<112,114,101,115,101,110,116,97,116,105,111,110>>,  \* presentation
    <<79,98,115,105,100,105,97,110>>,  \* Obsidian
    <<111,98,115,105,100,105,97,110>>,  \* obsidian
    <<82,111,97,109,32,82,101,115,101,97,114,99,104>>,  \* Roam Research
    <<114,111,97,109>>,  \* roam
    <<114,111,97,109,32,114,101,115,101,97,114,99,104>>,  \* roam research
    <<76,111,103,115,101,113>>,  \* Logseq
    <<108,111,103,115,101,113>>,  \* logseq
    <<73,110,116,101,108,108,105,74,32,73,68,69,65>>,  \* IntelliJ IDEA
    <<105,110,116,101,108,108,105,106>>,  \* intellij
    <<105,100,101,97>>,  \* idea
    <<80,121,67,104,97,114,109>>,  \* PyCharm
    <<112,121,99,104,97,114,109>>,  \* pycharm
    <<77,105,99,114,111,115,111,102,116,32,69,100,103,101>>,  \* Microsoft Edge
    <<101,100,103,101>>,  \* edge
    <<83,107,101,116,99,104>>,  \* Sketch
    <<115,107,101,116,99,104>>,  \* sketch
    <<65,100,111,98,101,32,80,104,111,116,111,115,104,111,112>>,  \* Adobe Photoshop
    <<112,104,111,116,111,115,104,111,112>>,  \* photoshop
    <<112,115>>,  \* ps
    <<65,100,111,98,101,32,73,108,108,117,115,116,114,97,116,111,114>>,  \* Adobe Illustrator
    <<105,108,108,117,115,116,114,97,116,111,114>>,  \* illustrator
    <<97,105>>,  \* ai
    <<83,121,115,116,101,109,32,80,114,101,102,101,114,101,110,99,101,115>>,  \* System Preferences
    <<115,121,115,116,101,109,32,112,114,101,102,101,114,101,110,99,101,115>>,  \* system preferences
    <<115,101,116,116,105,110,103,115>>,  \* settings
    <<31995,32479,35774,32622>>,  \* U+7CFB U+7EDF U+8BBE U+7F6E
    <<65,99,116,105,118,105,116,121,32,77,111,110,105,116,111,114>>,  \* Activity Monitor
    <<97,99,116,105,118,105,116,121,32,109,111,110,105,116,111,114>>,  \* activity monitor
    <<88,99,111,100,101>>,  \* Xcode
    <<120,99,111,100,101>>,  \* xcode
    <<83,112,111,116,105,102,121>>,  \* Spotify
    <<115,112,111,116,105,102,121>>,  \* spotify
    <<80,111,115,116,109,97,110>>,  \* Postman
    <<112,111,115,116,109,97,110>>,  \* postman
    <<67,117,114,115,111,114>>,  \* Cursor
    <<99,117,114,115,111,114>>,  \* cursor
    <<87,105,110,100,115,117,114,102>>,  \* Windsurf
    <<119,105,110,100,115,117,114,102>>,  \* windsurf
    <<67,108,97,117,100,101,32,67,111,100,101>>,  \* Claude Code
    <<99,108,97,117,100,101,45,99,111,100,101>>,  \* claude-code
    <<99,108,97,117,100,101,32,99,111,100,101>>,  \* claude code
    <<75,105,114,111>>,  \* Kiro
    <<107,105,114,111>>,  \* kiro
    <<90,101,110,32,98,114,111,119,115,101,114>>,  \* Zen browser
    <<122,101,110,32,98,114,111,119,115,101,114>>,  \* zen browser
    <<77,105,99,114,111,115,111,102,116,32,87,111,114,100>>,  \* Microsoft Word
    <<77,105,99,114,111,115,111,102,116,32,69,120,99,101,108>>,  \* Microsoft Excel
    <<65,114,99>>,  \* Arc
    <<66,114,97,118,101>>,  \* Brave
    <<72,121,112,101,114>>,  \* Hyper
    <<65,108,97,99,114,105,116,116,121>>,  \* Alacritty
    <<87,97,114,112>>,  \* Warp
    <<83,111,117,114,99,101,84,114,101,101>>,  \* SourceTree
    <<73,110,115,111,109,110,105,97>>,  \* Insomnia
    <<84,97,98,108,101,80,108,117,115>>,  \* TablePlus
    <<83,101,113,117,101,108,32,80,114,111>>,  \* Sequel Pro
    <<68,97,116,97,71,114,105,112>>  \* DataGrip
  >>

\* system_apps_to_skip (window_inspector.py:76-89)
system_apps_to_skip ==
  <<
    <<68,111,99,107>>,  \* Dock
    <<83,112,111,116,108,105,103,104,116>>,  \* Spotlight
    <<67,111,110,116,114,111,108,32,67,101,110,116,101,114>>,  \* Control Center
    <<78,111,116,105,102,105,99,97,116,105,111,110,32,67,101,110,116,101,114>>,  \* Notification Center
    <<83,121,115,116,101,109,85,73,83,101,114,118,101,114>>,  \* SystemUIServer
    <<87,105,110,100,111,119,32,83,101,114,118,101,114>>,  \* Window Server
    <<77,110,101,109,111,114,97>>,  \* Mnemora
    <<69,108,101,99,116,114,111,110>>,  \* Electron
    <<77,110,101,109,111,114,97,32,45,32,89,111,117,114,32,83,101,99,111,110,100,32,66,114,97,105,110>>,  \* Mnemora - Your Second Brain
    <<67,111,110,116,114,111,108,67,101,110,116,101,114>>,  \* ControlCenter
    <<87,105,110,100,111,119,77,97,110,97,103,101,114>>,  \* WindowManager
    <<78,111,116,105,102,105,99,97,116,105,111,110,67,101,110,116,101,114>>,  \* NotificationCenter
    <<65,88,86,105,115,117,97,108,83,117,112,112,111,114,116,65,103,101,110,116>>,  \* AXVisualSupportAgent
    <<117,110,105,118,101,114,115,97,108,97,99,99,101,115,115,100>>,  \* universalaccessd
    <<84,101,120,116,73,110,112,117,116,77,101,110,117,65,103,101,110,116>>,  \* TextInputMenuAgent
    <<67,111,114,101,76,111,99,97,116,105,111,110,65,103,101,110,116>>,  \* CoreLocationAgent
    <<108,111,103,105,110,119,105,110,100,111,119>>,  \* loginwindow
    <<85,115,101,114,78,111,116,105,102,105,99,97,116,105,111,110,67,101,110,116,101,114>>,  \* UserNotificationCenter
    <<67,117,114,115,111,114,85,73,86,105,101,119,83,101,114,118,105,99,101>>,  \* CursorUIViewService
    <<76,105,110,107,101,100,78,111,116,101,115,85,73,83,101,114,118,105,99,101>>,  \* LinkedNotesUIService
    <<79,112,101,110,32,97,110,100,32,83,97,118,101,32,80,97,110,101,108,32,83,101,114,118,105,99,101>>,  \* Open and Save Panel Service
    <<31243,24207,22366>>,  \* U+7A0B U+5E8F U+575E
    <<36890,30693,20013,24515>>,  \* U+901A U+77E5 U+4E2D U+5FC3
    <<32858,28966>>,  \* U+805A U+7126
    <<22681,32440>>,  \* U+5899 U+7EB8
    <<24494,20449,36755,20837,27861>>,  \* U+5FAE U+4FE1 U+8F93 U+5165 U+6CD5
    <<33258,21160,22635,20805>>,  \* U+81EA U+52A8 U+586B U+5145
    <<38544,31169,19982,23433,20840,24615>>  \* U+9690 U+79C1 U+4E0E U+5B89 U+5168 U+6027
  >>

\* ---------------------------------------------------------------------
\* The loop body, lines 94-142
\* ---------------------------------------------------------------------
window_num(window) == Get(window, "kCGWindowNumber", None)
app_name(window) == Get(window, "kCGWindowOwnerName", None)
window_title(window) == Get(window, "kCGWindowName", StrV(<<>>))
bounds(window) == Get(window, "kCGWindowBounds", EmptyDict)
width(window) == Get(bounds(window), "Width", IntV(0))
height(window) == Get(bounds(window), "Height", IntV(0))
layer(window) == Get(window, "kCGWindowLayer", IntV(0))

\* a value that has .get (the bounds rectangle)
IsDict(v) == DOMAIN v \subseteq {"X", "Y", "Width", "Height"}

\* variant: only the window number is tested
has_identity_number_only(window) == Truthy(window_num(window))

\* line 99: app_name and window_num
has_identity(window) == Truthy(app_name(window)) /\ Truthy(window_num(window))

\* variant: the comparison ignores case
is_system_app_nocase(window) ==
  \E k \in DOMAIN system_apps_to_skip :
    /\ IsStr(app_name(window))
    /\ lower(app_name(window).str) = lower(system_apps_to_skip[k])

\* line 102: app_name in system_apps_to_skip (list membership, ==)
is_system_app(window) ==
  \E k \in DOMAIN system_apps_to_skip :
    app_name(window) = StrV(system_apps_to_skip[k])

\* lines 95-116, in the order the statements run: "continue" when one of
\* the four tests skips the record, "raise" when a statement raises first,
\* "pass" when the record reaches line 118
noise_filter(window) ==
  IF ~has_identity(window) THEN "continue"
  ELSE IF is_system_app(window) THEN "continue"
  ELSE IF ~IsDict(bounds(window)) THEN "raise"
  ELSE IF ~IsInt(width(window)) THEN "raise"
  ELSE IF width(window).int < 50 THEN "continue"
  ELSE IF ~IsInt(height(window)) THEN "raise"
  ELSE IF height(window).int < 50 THEN "continue"
  ELSE IF ~IsInt(layer(window)) THEN "raise"
  ELSE IF layer(window).int > 200 THEN "continue"
  ELSE "pass"

\* app.lower() for each app of important_apps (line 119)
lower_apps == [k \in DOMAIN important_apps |-> lower(important_apps[k])]

\* variant: containment is tested in one direction only
matches_forward(app, name) == In(app, name)

\* line 119, on the two lowered strings:
\* app.lower() in app_name.lower() or app_name.lower() in app.lower()
matches(app, name) == In(app, name) \/ In(name, app)

\* lines 118-121: any(...) over important_apps
is_important(name) ==
  \E n \in {lower(name)} :
    \E k \in DOMAIN lower_apps : matches(lower_apps[k], n)

\* line 122
has_content(title) == strip(title) # <<>>

\* variant: the comparisons are not strict
is_reasonable_size_loose(w, h) == w >= 300 /\ h >= 200

\* line 123
is_reasonable_size(w, h) == w > 300 /\ h > 200

\* line 125
should_include(important, content, reasonable) ==
  important \/ content \/ reasonable

\* lines 130-139
window_info(window, important) ==
  [windowId |-> window["kCGWindowNumber"],
   appName |-> app_name(window),
   windowTitle |-> window_title(window),
   bounds |-> bounds(window),
   isOnScreen |-> Get(window, "kCGWindowIsOnscreen", BoolV(FALSE)),
   layer |-> layer(window),
   isImportant |-> BoolV(important),
   area |-> IntV(width(window).int * height(window).int)]

\* One iteration of the for loop on one record: how it ends ("continue",
\* "append" or "raise"), whether lines 118-121 and line 122 ran, and the
\* values they computed.
Outcome(kind, ran118, important, ran122, info) ==
  [kind |-> kind, classified |-> ran118, is_important |-> important,
   stripped |-> ran122, window_info |-> info]

\* variant: the title is inspected before the record is filtered
loop_body_title_first(window) ==
  IF ~IsStr(window_title(window))
  THEN Outcome("raise", FALSE, FALSE, FALSE, <<>>)
  ELSE IF noise_filter(window) # "pass"
  THEN Outcome(noise_filter(window), FALSE, FALSE, TRUE, <<>>)
  ELSE IF ~IsStr(app_name(window))
  THEN Outcome("raise", FALSE, FALSE, TRUE, <<>>)
  ELSE LET important == is_important(app_name(window).str)
       IN IF should_include(important,
                            has_content(window_title(window).str),
                            is_reasonable_size(width(window).int,
                                               height(window).int))
          THEN Outcome("append", TRUE, important, TRUE,
                       <<window_info(window, important)>>)
          ELSE Outcome("continue", TRUE, important, TRUE, <<>>)

loop_body(window) ==
  IF noise_filter(window) # "pass"
  THEN Outcome(noise_filter(window), FALSE, FALSE, FALSE, <<>>)
  ELSE IF ~IsStr(app_name(window))
  THEN Outcome("raise", FALSE, FALSE, FALSE, <<>>)
  ELSE LET important == is_important(app_name(window).str)
       IN IF ~IsStr(window_title(window))
          THEN Outcome("raise", TRUE, important, FALSE, <<>>)
          ELSE IF should_include(important,
                                 has_content(window_title(window).str),
                                 is_reasonable_size(width(window).int,
                                                    height(window).int))
          THEN Outcome("append", TRUE, important, TRUE,
                       <<window_info(window, important)>>)
          ELSE Outcome("continue", TRUE, important, TRUE, <<>>)

\* ---------------------------------------------------------------------
\* Sort and emit, lines 147-150
\* ---------------------------------------------------------------------
\* variant: the importance is not negated
key_unimportant_first(x) == <<x.isImportant.bool, x.appName.str>>

\* the sort key of line 147: (not x['isImportant'], x['appName'])
key(x) == <<~x.isImportant.bool, x.appName.str>>

\* a < b for two such tuples (False < True, then str order)
key_less(a, b) ==
  IF a[1] # b[1] THEN (~a[1]) /\ b[1] ELSE StrLess(a[2], b[2])

\* list.sort is stable: the element at index k comes after the elements
\* with a smaller key and after those with an equal key and a smaller index
sorted_position(ws, k) ==
  1 + Cardinality({j \in DOMAIN ws :
                     \/ key_less(key(ws[j]), key(ws[k]))
                     \/ ~key_less(key(ws[k]), key(ws[j])) /\ j < k})

sort(ws) ==
  [p \in DOMAIN ws |-> ws[CHOOSE k \in DOMAIN ws : sorted_position(ws, k) = p]]

\* json.dumps raises TypeError on an object it has no encoding for
json_value_ok(v) == v # Obj

json_serializable(ws) ==
  \A k \in DOMAIN ws :
    /\ json_value_ok(ws[k].windowId)
    /\ json_value_ok(ws[k].isOnScreen)
    /\ \A b \in DOMAIN ws[k].bounds : json_value_ok(ws[k].bounds[b])

\* json.dumps: the JSON value each Python value is written as.  What print
\* writes is a JSON document; a document is identified with the array it
\* denotes, so json.dumps of an empty list and the literal "[]" are the same
\* document.
to_json(v) ==
  IF IsInt(v) THEN [number |-> v.int]
  ELSE IF IsStr(v) THEN [string |-> v.str]
  ELSE IF IsBool(v) THEN [boolean |-> v.bool]
  ELSE [null |-> TRUE]

json_object(x) ==
  [windowId |-> to_json(x.windowId),
   appName |-> to_json(x.appName),
   windowTitle |-> to_json(x.windowTitle),
   bounds |-> [b \in DOMAIN x.bounds |-> to_json(x.bounds[b])],
   isOnScreen |-> to_json(x.isOnScreen),
   layer |-> to_json(x.layer),
   isImportant |-> to_json(x.isImportant),
   area |-> to_json(x.area)]

json_dumps(ws) == [k \in DOMAIN ws |-> json_object(ws[k])]

\* the literal "[]" of lines 153 and 155
EmptyArray == <<>>

\* ---------------------------------------------------------------------
\* Snapshots the window server may return
\* ---------------------------------------------------------------------
MaxLen == 3

s_Slack == <<83,108,97,99,107>>
s_Code == <<67,111,100,101>>
s_MyCode == <<77,121,67,111,100,101>>
s_X == <<88>>
s_Dock == <<68,111,99,107>>
s_dock == <<100,111,99,107>>
s_DockHelper == <<68,111,99,107,32,72,101,108,112,101,114>>
s_CursorUIViewService ==
  <<67,117,114,115,111,114,85,73,86,105,101,119,83,101,114,118,105,99,101>>
s_RandomTool == <<82,97,110,100,111,109,84,111,111,108>>
s_Zed == <<90,101,100>>
s_apple == <<97,112,112,108,101>>
s_Report == <<82,101,112,111,114,116,46,112,100,102>>
s_blank == <<32,9>>

\* a dict with the key absent, or with one of the values
Opt(k, vals) == {EmptyDict} \cup {(k :> v) : v \in vals}

Rect(w, h) == [Width |-> IntV(w), Height |-> IntV(h)]

SomeBounds ==
  {Rect(40, 40), Rect(49, 50), Rect(50, 49), Rect(50, 50), Rect(60, 60),
   Rect(100, 100), Rect(300, 200), Rect(301, 200), Rect(300, 201),
   Rect(301, 201), Rect(310, 210), [Width |-> None, Height |-> IntV(400)]}

\* every combination of the field values the rules distinguish
AnyRecords ==
  {a @@ b @@ c @@ d @@ e :
     a \in Opt("kCGWindowNumber", {IntV(0), IntV(5)}),
     b \in Opt("kCGWindowOwnerName",
               {StrV(<<>>), StrV(s_Slack), StrV(s_MyCode), StrV(s_X), StrV(s_Dock),
                StrV(s_dock), StrV(s_DockHelper), StrV(s_CursorUIViewService),
                StrV(s_RandomTool)}),
     c \in Opt("kCGWindowName",
               {StrV(<<>>), StrV(s_blank), StrV(s_Report), None}),
     d \in Opt("kCGWindowBounds", SomeBounds),
     e \in Opt("kCGWindowLayer", {IntV(200), IntV(201), None})}

Win(num, name, title, w, h) ==
  [kCGWindowNumber |-> num, kCGWindowOwnerName |-> StrV(name),
   kCGWindowName |-> title, kCGWindowBounds |-> Rect(w, h),
   kCGWindowLayer |-> IntV(0), kCGWindowIsOnscreen |-> BoolV(TRUE)]

\* records for snapshots of several windows
SomeRecords ==
  {Win(IntV(5), s_Slack, StrV(<<>>), 400, 300),
   Win(IntV(6), s_Slack, StrV(s_Report), 400, 300),
   Win(IntV(7), s_Code, StrV(<<>>), 60, 60),
   Win(IntV(8), s_Zed, StrV(s_Report), 200, 150),
   Win(IntV(9), s_apple, StrV(<<>>), 310, 210),
   Win(IntV(11), s_Dock, StrV(<<>>), 1000, 50),
   Win(IntV(12), s_Slack, None, 400, 300),
   Win(IntV(13), s_Slack, None, 40, 40),
   [Win(IntV(14), s_Zed, StrV(s_Report), 400, 300)
      EXCEPT !.kCGWindowIsOnscreen = Obj]}

RECURSIVE SeqsUpTo(_, _)
SeqsUpTo(S, n) ==
  IF n = 0 THEN {<<>>}
  ELSE LET shorter == SeqsUpTo(S, n - 1)
       IN shorter \cup {Append(s, x) : s \in shorter, x \in S}

Snapshots == {<<r>> : r \in AnyRecords} \cup SeqsUpTo(SomeRecords, MaxLen)

\* ---------------------------------------------------------------------
\* State
\* ---------------------------------------------------------------------
VARIABLES
  pc,            \* the statement the script is at
  snapshot,      \* what the window server holds (the environment)
  window_list,   \* line 24
  i,             \* line 94: the record the loop is at (1-based)
  windows,       \* line 26
  classified,    \* the records lines 118-121 ran for, with the flag computed
  stripped,      \* the records line 122 evaluated window_title.strip() for
  raised,        \* the exception the try block ended with, if any
  stdout,        \* the documents printed so far
  exit_status    \* the status the process ended with, -1 while it runs

vars == <<pc, snapshot, window_list, i, windows, classified, stripped,
          raised, stdout, exit_status>>

Running == -1

Init ==
  /\ pc = "import"
  /\ snapshot \in Snapshots
  /\ window_list = <<>>
  /\ i = 1
  /\ windows = <<>>
  /\ classified = {}
  /\ stripped = {}
  /\ raised = "none"
  /\ stdout = <<>>
  /\ exit_status = Running

\* line 22, the module is there
ImportQuartz ==
  /\ pc = "import"
  /\ pc' = "call"
  /\ UNCHANGED <<snapshot, window_list, i, windows, classified, stripped,
                 raised, stdout, exit_status>>

\* line 22, the module is missing
ImportQuartzFails ==
  /\ pc = "import"
  /\ raised' = "ImportError"
  /\ pc' = "except_ImportError"
  /\ UNCHANGED <<snapshot, window_list, i, windows, classified, stripped,
                 stdout, exit_status>>

\* lines 24-92
CopyWindowInfo ==
  /\ pc = "call"
  /\ window_list' = snapshot
  /\ windows' = <<>>
  /\ i' = 1
  /\ pc' = "loop"
  /\ UNCHANGED <<snapshot, classified, stripped, raised, stdout, exit_status>>

\* line 24, the call raises
CopyWindowInfoFails ==
  /\ pc = "call"
  /\ raised' = "Exception"
  /\ pc' = "except_Exception"
  /\ UNCHANGED <<snapshot, window_list, i, windows, classified, stripped,
                 stdout, exit_status>>

\* variant: one entry per application
append_one_per_app(ws, info) ==
  IF \E k \in DOMAIN ws : \E n \in DOMAIN info : ws[k].appName = info[n].appName
  THEN ws
  ELSE ws \o info

\* line 142: windows.append(window_info), when the iteration built one
append(ws, info) == ws \o info

\* lines 94-142, one iteration
LoopBody ==
  /\ pc = "loop"
  /\ i <= Len(window_list)
  /\ \E r \in {loop_body(window_list[i])} :
        /\ classified' =
             IF r.classified
             THEN classified \cup {[index |-> i, is_important |-> r.is_important]}
             ELSE classified
        /\ stripped' = IF r.stripped THEN stripped \cup {i} ELSE stripped
        /\ windows' = append(windows, r.window_info)
        /\ IF r.kind = "raise"
           THEN /\ raised' = "Exception"
                /\ pc' = "except_Exception"
                /\ i' = i
           ELSE /\ i' = i + 1
                /\ UNCHANGED <<raised, pc>>
  /\ UNCHANGED <<snapshot, window_list, stdout, exit_status>>

\* line 147
Sort ==
  /\ pc = "loop"
  /\ i > Len(window_list)
  /\ windows' = sort(windows)
  /\ pc' = "print"
  /\ UNCHANGED <<snapshot, window_list, i, classified, stripped, raised,
                 stdout, exit_status>>

\* line 150
PrintJson ==
  /\ pc = "print"
  /\ json_serializable(windows)
  /\ stdout' = Append(stdout, json_dumps(windows))
  /\ pc' = "exit"
  /\ UNCHANGED <<snapshot, window_list, i, windows, classified, stripped,
                 raised, exit_status>>

\* line 150, json.dumps raises before anything is printed
PrintJsonFails ==
  /\ pc = "print"
  /\ ~json_serializable(windows)
  /\ raised' = "Exception"
  /\ pc' = "except_Exception"
  /\ UNCHANGED <<snapshot, window_list, i, windows, classified, stripped,
                 stdout, exit_status>>

\* lines 152-153
ExceptImportError ==
  /\ pc = "except_ImportError"
  /\ stdout' = Append(stdout, EmptyArray)
  /\ pc' = "exit"
  /\ UNCHANGED <<snapshot, window_list, i, windows, classified, stripped,
                 raised, exit_status>>

\* variant: the handler prints what the loop had collected
ExceptException_partial ==
  /\ pc = "except_Exception"
  /\ stdout' = Append(stdout, json_dumps(windows))
  /\ pc' = "exit"
  /\ UNCHANGED <<snapshot, window_list, i, windows, classified, stripped,
                 raised, exit_status>>

\* variant: the handler prints nothing
ExceptException_silent ==
  /\ pc = "except_Exception"
  /\ pc' = "exit"
  /\ UNCHANGED <<snapshot, window_list, i, windows, classified, stripped,
                 raised, stdout, exit_status>>

\* lines 154-155
ExceptException ==
  /\ pc = "except_Exception"
  /\ stdout' = Append(stdout, EmptyArray)
  /\ pc' = "exit"
  /\ UNCHANGED <<snapshot, window_list, i, windows, classified, stripped,
                 raised, exit_status>>

\* the end of the script: the interpreter exits with status 0
Exit ==
  /\ pc = "exit"
  /\ exit_status' = 0
  /\ pc' = "done"
  /\ UNCHANGED <<snapshot, window_list, i, windows, classified, stripped,
                 raised, stdout>>

Next ==
  \/ ImportQuartz
  \/ ImportQuartzFails
  \/ CopyWindowInfo
  \/ CopyWindowInfoFails
  \/ LoopBody
  \/ Sort
  \/ PrintJson
  \/ PrintJsonFails
  \/ ExceptImportError
  \/ ExceptException
  \/ Exit

Spec == Init /\ [][Next]_vars

\* the script is one thread that runs to its end
FairSpec == Spec /\ WF_vars(Next)

TypeOK ==
  /\ pc \in {"import", "call", "loop", "print", "exit", "done",
             "except_ImportError", "except_Exception"}
  /\ i \in 1..(Len(window_list) + 1)
  /\ raised \in {"none", "ImportError", "Exception"}
  /\ exit_status \in {Running, 0}

\* ---------------------------------------------------------------------
\* Properties
\* ---------------------------------------------------------------------
Range(s) == {s[k] : k \in DOMAIN s}

\* the loop is about to run its body on window_list[i]
Processing == pc = "loop" /\ i <= Len(window_list)

\* the run ended through line 150
Succeeded == pc = "done" /\ raised = "none"

\* the entries the loop builds from a list of records that all run through
RECURSIVE KeptEntries(_)
KeptEntries(list) ==
  IF list = <<>> THEN <<>>
  ELSE KeptEntries(SubSeq(list, 1, Len(list) - 1))
         \o loop_body(list[Len(list)]).window_info

\* some statement raises while the snapshot is processed
SnapshotRaises ==
  \/ \E k \in DOMAIN snapshot : loop_body(snapshot[k]).kind = "raise"
  \/ ~json_serializable(KeptEntries(snapshot))

\* C1: whenever a failure occurs (import, call, any record, serialization)
\* the complete output is the array [] and the exit status is 0; what is
\* printed is always either [] or the full ordered list of all kept
\* records, never a part of it.
C1_AllOrNothing ==
  /\ \A k \in DOMAIN stdout :
       \/ stdout[k] = EmptyArray
       \/ /\ raised = "none"
          /\ ~SnapshotRaises
          /\ stdout[k] = json_dumps(sort(KeptEntries(snapshot)))
  /\ (pc = "done" /\ (raised # "none" \/ SnapshotRaises))
       => stdout = <<EmptyArray>> /\ exit_status = 0

\* a record raised after an entry had been built from an earlier one
C1_Witness ==
  /\ pc = "done"
  /\ raised = "Exception"
  /\ windows # <<>>
  /\ i <= Len(window_list)
  /\ stdout = <<EmptyArray>>
  /\ exit_status = 0

MissingIdentity(window) ==
  \/ "kCGWindowNumber" \notin DOMAIN window
  \/ "kCGWindowOwnerName" \notin DOMAIN window
  \/ window["kCGWindowOwnerName"] = StrV(<<>>)

\* C2: a record whose windowId is absent, or whose ownerApplicationName is
\* absent or empty, produces no entry, whatever its other fields; every
\* entry built or printed has a windowId and a non-empty appName.
C2_IdentityRequired ==
  /\ [](/\ \A k \in DOMAIN windows :
            /\ windows[k].windowId # None
            /\ IsStr(windows[k].appName)
            /\ windows[k].appName.str # <<>>
        /\ \A d \in DOMAIN stdout : \A k \in DOMAIN stdout[d] :
            /\ stdout[d][k].windowId # to_json(None)
            /\ DOMAIN stdout[d][k].appName = {"string"}
            /\ stdout[d][k].appName.string # <<>>)
  /\ [][(Processing /\ MissingIdentity(window_list[i]))
          => (windows' = windows /\ pc' = "loop" /\ i' = i + 1)]_vars

\* an important, large, titled window without a windowId gave no entry
C2_Witness ==
  /\ Succeeded
  /\ Len(snapshot) = 1
  /\ "kCGWindowNumber" \notin DOMAIN snapshot[1]
  /\ app_name(snapshot[1]) = StrV(s_Slack)
  /\ window_title(snapshot[1]) = StrV(s_Report)
  /\ bounds(snapshot[1]) = Rect(310, 210)
  /\ stdout = <<EmptyArray>>

SystemNames == Range(system_apps_to_skip)

\* a name that is no exclusion entry but equals one up to case, or contains
\* one, or is contained in one
NearMiss(name) ==
  /\ name \notin SystemNames
  /\ \E e \in SystemNames :
       lower(e) = lower(name) \/ In(e, name) \/ In(name, e)

\* a record that nothing but the exclusion rule could keep out of the output
OtherwiseKept(window) ==
  /\ ~MissingIdentity(window)
  /\ window_num(window) \notin {None, IntV(0)}
  /\ IsStr(app_name(window))
  /\ IsDict(bounds(window))
  /\ IsInt(width(window)) /\ width(window).int >= 50
  /\ IsInt(height(window)) /\ height(window).int >= 50
  /\ IsInt(layer(window)) /\ layer(window).int <= 200
  /\ IsStr(window_title(window))
  /\ \E k \in DOMAIN window_title(window).str :
       ~IsSpace(window_title(window).str[k])

\* C3: no entry built or printed has an appName equal to an exclusion
\* entry, whatever the record's size, title, layer or importance; a name
\* that only resembles an exclusion entry (other case, substring,
\* superstring) is not kept out by this rule.
C3_SystemExclusion ==
  /\ [](/\ \A k \in DOMAIN windows : windows[k].appName.str \notin SystemNames
        /\ \A d \in DOMAIN stdout : \A k \in DOMAIN stdout[d] :
             stdout[d][k].appName.string \notin SystemNames)
  /\ [][(/\ Processing
          /\ OtherwiseKept(window_list[i])
          /\ NearMiss(app_name(window_list[i]).str))
          => (/\ Len(windows') = Len(windows) + 1
              /\ windows'[Len(windows')].appName = app_name(window_list[i]))]_vars

\* CursorUIViewService matches the catalog alias "cursor" and is still
\* left out
C3_Witness ==
  /\ Succeeded
  /\ Len(snapshot) = 1
  /\ window_num(snapshot[1]) = IntV(5)
  /\ app_name(snapshot[1]) = StrV(s_CursorUIViewService)
  /\ is_important(s_CursorUIViewService)
  /\ window_title(snapshot[1]) = StrV(s_Report)
  /\ bounds(snapshot[1]) = Rect(310, 210)
  /\ "kCGWindowLayer" \notin DOMAIN snapshot[1]
  /\ stdout = <<EmptyArray>>

\* the four rejection rules as the specification words them
Rule1(window) == MissingIdentity(window)
Rule2(window) == app_name(window).str \in SystemNames
Rule3(window) == width(window).int < 50 \/ height(window).int < 50
Rule4(window) == layer(window).int > 200

\* a record whose fields have the shapes the data model gives them
WellFormed(window) ==
  /\ \A k \in {"kCGWindowNumber", "kCGWindowLayer"} \cap DOMAIN window :
       IsInt(window[k])
  /\ \A k \in {"kCGWindowOwnerName", "kCGWindowName"} \cap DOMAIN window :
       IsStr(window[k])
  /\ IsDict(bounds(window))
  /\ IsInt(width(window)) /\ IsInt(height(window))

\* the step just taken ran lines 118-121 for record n
ClassifiedNext(n) == \E c \in classified' : c.index = n

\* C4: the Noise Filter rejects a record if and only if one of the four
\* rules matches: (1) windowId absent or ownerApplicationName absent or
\* empty, (2) ownerApplicationName in the exclusion set, (3) width < 50 or
\* height < 50, (4) layer > 200; a present windowId of any non-negative
\* value passes rule 1.
C4_NoiseFilterRules ==
  [][(Processing /\ WellFormed(window_list[i]))
      => (ClassifiedNext(i)
            <=> ~(\/ Rule1(window_list[i])
                  \/ Rule2(window_list[i])
                  \/ Rule3(window_list[i])
                  \/ Rule4(window_list[i])))]_vars

\* a occurs in b: b is some u, then a, then some v
Substring(a, b) ==
  \E from \in 1..(Len(b) + 1) :
    /\ from + Len(a) - 1 <= Len(b)
    /\ SubSeq(b, from, from + Len(a) - 1) = a

\* s with A-Z replaced by a-z
Fold(s) == [k \in DOMAIN s |-> IF s[k] \in 65..90 THEN s[k] + 32 ELSE s[k]]

\* the catalog as a set of case-folded names
FoldedCatalog == {Fold(app) : app \in Range(important_apps)}

\* the flag as the specification defines it
Important(name) ==
  \E n \in {Fold(name)} : \E app \in FoldedCatalog :
    Substring(app, n) \/ Substring(n, app)

\* C5: for every record that reaches the classifier, isImportant is true
\* if and only if some catalog entry contains the name or is contained in
\* it, ignoring case; the flag depends on appName alone, not on the order
\* of the catalog or on the record's other fields, and it is the flag the
\* entry is built and printed with.
C5_Classifier ==
  /\ [][Processing
         => \A c \in classified' \ classified :
              /\ c.index = i
              /\ c.is_important <=> Important(app_name(window_list[i]).str)
              /\ \A k \in (DOMAIN windows') \ (DOMAIN windows) :
                   windows'[k].isImportant = BoolV(c.is_important)]_vars
  /\ [](\A d \in DOMAIN stdout : \A k \in DOMAIN stdout[d] :
          \E c \in classified :
            /\ to_json(app_name(window_list[c.index])) = stdout[d][k].appName
            /\ to_json(BoolV(c.is_important)) = stdout[d][k].isImportant)
  /\ [](\A c1, c2 \in classified :
          app_name(window_list[c1.index]) = app_name(window_list[c2.index])
            => c1.is_important = c2.is_important)

\* "X" is in no catalog entry's place but inside "Xcode": flagged through
\* the reverse direction, and emitted so
C5_Witness ==
  /\ Succeeded
  /\ Len(snapshot) = 1
  /\ app_name(snapshot[1]) = StrV(s_X)
  /\ window_title(snapshot[1]) = StrV(s_blank)
  /\ bounds(snapshot[1]) = Rect(60, 60)
  /\ Len(stdout[1]) = 1
  /\ stdout[1][1].isImportant = to_json(BoolV(TRUE))

NonBlank(title) == \E k \in DOMAIN title : ~IsSpace(title[k])

Keep(window) ==
  \/ Important(app_name(window).str)
  \/ NonBlank(window_title(window).str)
  \/ (width(window).int > 300 /\ height(window).int > 200)

\* C6: a record that passed the Noise Filter is kept if and only if it is
\* important, or its trimmed title is non-empty, or width > 300 and
\* height > 200 (both strict).
C6_InclusionDecision ==
  [][(/\ Processing
      /\ noise_filter(window_list[i]) = "pass"
      /\ IsStr(app_name(window_list[i]))
      /\ IsStr(window_title(window_list[i])))
      => /\ pc' = "loop"
         /\ IF Keep(window_list[i])
            THEN /\ Len(windows') = Len(windows) + 1
                 /\ windows'[Len(windows')].windowId = window_num(window_list[i])
                 /\ SubSeq(windows', 1, Len(windows)) = windows
            ELSE windows' = windows]_vars

\* an unimportant window with a blank title at 301x200 was dropped
C6_Witness ==
  /\ Succeeded
  /\ Len(snapshot) = 1
  /\ noise_filter(snapshot[1]) = "pass"
  /\ app_name(snapshot[1]) = StrV(s_RandomTool)
  /\ window_title(snapshot[1]) = StrV(s_blank)
  /\ bounds(snapshot[1]) = Rect(301, 200)
  /\ stdout = <<EmptyArray>>

\* a <= b in code point order, without recursion: the two agree on a prefix
\* after which a ends or has the smaller code point
LexLeq(a, b) ==
  \E p \in 0..Len(a) :
    /\ p <= Len(b)
    /\ \A j \in 1..p : a[j] = b[j]
    /\ \/ p = Len(a)
       \/ p < Len(b) /\ a[p + 1] < b[p + 1]

\* the entries of a document that have a given importance and appName
OfClass(doc, important, name) ==
  LET Test(e) == e.isImportant.boolean = important /\ e.appName.string = name
  IN SelectSeq(doc, Test)

\* C7: in a successful output every important entry precedes every
\* unimportant one, appName is non-decreasing (code point order) within
\* each importance class, and entries with the same importance and appName
\* keep the relative order their records had in the snapshot.
C7_Order ==
  Succeeded =>
    /\ \A a, b \in DOMAIN stdout[1] :
         a < b =>
           /\ stdout[1][a].isImportant.boolean \/ ~stdout[1][b].isImportant.boolean
           /\ (stdout[1][a].isImportant = stdout[1][b].isImportant)
                => LexLeq(stdout[1][a].appName.string, stdout[1][b].appName.string)
    /\ \A a \in DOMAIN stdout[1] :
         OfClass(stdout[1], stdout[1][a].isImportant.boolean,
                 stdout[1][a].appName.string)
           = OfClass(json_dumps(KeptEntries(snapshot)),
                     stdout[1][a].isImportant.boolean,
                     stdout[1][a].appName.string)

\* an unimportant window came first in the snapshot and is printed last;
\* the two Slack windows keep their snapshot order 6, 5
C7_Witness ==
  /\ Succeeded
  /\ Len(snapshot) = 3
  /\ window_num(snapshot[1]) = IntV(9)
  /\ window_num(snapshot[2]) = IntV(6)
  /\ window_num(snapshot[3]) = IntV(5)
  /\ Len(stdout[1]) = 3
  /\ stdout[1][1].windowId = to_json(IntV(6))
  /\ stdout[1][2].windowId = to_json(IntV(5))
  /\ stdout[1][3].windowId = to_json(IntV(9))

Count(doc, e) == Cardinality({k \in DOMAIN doc : doc[k] = e})

\* C8: a successful output has exactly one entry per record that passed
\* the Noise Filter and the Inclusion Decision and no other entry; records
\* with the same appName, or the same fields, each have their own entry.
C8_NoDeduplication ==
  Succeeded =>
    /\ Len(stdout[1]) =
         Cardinality({k \in DOMAIN snapshot : loop_body(snapshot[k]).kind = "append"})
    /\ \A e \in Range(stdout[1]) \cup Range(json_dumps(KeptEntries(snapshot))) :
         Count(stdout[1], e) = Count(json_dumps(KeptEntries(snapshot)), e)

\* the same record twice and another window of the same application: three
\* entries
C8_Witness ==
  /\ Succeeded
  /\ Len(snapshot) = 3
  /\ snapshot[1] = snapshot[2]
  /\ app_name(snapshot[3]) = app_name(snapshot[1])
  /\ snapshot[3] # snapshot[1]
  /\ Len(stdout[1]) = 3
  /\ stdout[1][1] = stdout[1][2]

\* C9: every run terminates, and when it has, it has printed exactly one
\* document (the array of entries or []), never none and never two.
C9_OneResult ==
  /\ <>(pc = "done")
  /\ [](Len(stdout) <= 1)
  /\ [](pc = "done" => Len(stdout) = 1 /\ exit_status = 0)

\* json.dumps raised after the loop and the sort had finished
C9_Witness ==
  /\ pc = "done"
  /\ raised = "Exception"
  /\ i > Len(window_list)
  /\ windows # <<>>
  /\ stdout = <<EmptyArray>>

\* C10: a record the Noise Filter rejects is not classified and its title
\* is not trimmed, so a title that is not a string does not make it fail;
\* the same title on a record that passes the filter ends the run with [].
C10_FilterFirst ==
  /\ [][(Processing /\ noise_filter(window_list[i]) = "continue")
         => /\ classified' = classified
            /\ stripped' = stripped
            /\ windows' = windows
            /\ raised' = "none"
            /\ pc' = "loop"]_vars
  /\ [][(/\ Processing
         /\ noise_filter(window_list[i]) = "pass"
         /\ IsStr(app_name(window_list[i]))
         /\ ~IsStr(window_title(window_list[i])))
         => (pc' = "except_Exception" /\ raised' = "Exception")]_vars
  /\ []((pc = "done" /\ raised = "Exception") => stdout = <<EmptyArray>>)

\* a 40x40 window whose title is None was skipped and the next window
\* was printed
C10_Witness ==
  /\ Succeeded
  /\ Len(snapshot) = 2
  /\ window_title(snapshot[1]) = None
  /\ bounds(snapshot[1]) = Rect(40, 40)
  /\ noise_filter(snapshot[1]) = "continue"
  /\ Len(stdout[1]) = 1
====
